---- MODULE Spec2Model ----
(***************************************************************************)
(* One run of binance_bot.py: the __main__ block from argument parsing to  *)
(* the final summary, as a sequential state machine.                       *)
(*                                                                         *)
(* Decimal values are fixed-point integers.  Amounts, quantities, prices   *)
(* and filter values count units of 1/Unit; order_value, a product of two  *)
(* of them, counts units of 1/(Unit*Unit).  percent_change counts          *)
(* 1/PctUnit of a percentage point.  Decimal('x').quantize(q) rounds to    *)
(* the exponent of q with ROUND_HALF_EVEN, the decimal context's default.  *)
(*                                                                         *)
(* The statement at lines 298-300 continues an expression over a line      *)
(* break after a trailing + without parentheses; the three parts are read  *)
(* here as the one message they are meant to form.                         *)
(***************************************************************************)
EXTENDS Integers, Sequences, FiniteSets, TLC

VARIABLES
    pc,                 \* the statement block the run is about to execute
    order_side, amount, amount_currency, is_dynamic_dca, live_mode, job_mode,
    sns_topic,          \* TRUE when the settings file configures an SNS topic
    symbol_found,       \* the loop at line 197 matched market_name
    base_min_size, base_increment, quote_increment, quote_asset_precision,
    amount_currency_is_quote_currency,
    response,           \* the operator's answer to input()
    orig_amount, percent_change, steps,
    market_price, base_currency_amount, order_value,
    message,            \* TRUE once the below-minNotional message is printed
    purchase_summary, order,
    exit_status, exit_at, error,
    trace               \* collaborator calls and pipeline events, in order

vars == <<pc, order_side, amount, amount_currency, is_dynamic_dca, live_mode,
          job_mode, sns_topic, symbol_found, base_min_size, base_increment,
          quote_increment, quote_asset_precision,
          amount_currency_is_quote_currency, response, orig_amount,
          percent_change, steps, market_price, base_currency_amount,
          order_value, message, purchase_summary, order, exit_status, exit_at,
          error, trace>>

args == <<order_side, amount_currency, live_mode, job_mode, sns_topic>>
constraints == <<symbol_found, base_min_size, base_increment, quote_increment,
                 quote_asset_precision, amount_currency_is_quote_currency>>
scaling == <<orig_amount, percent_change, steps>>
sizing == <<market_price, base_currency_amount, order_value>>
ending == <<exit_status, exit_at, error>>

----------------------------------------------------------------------------
(* Units and bounds *)

step_size == 5
amount_multiplier == 1
amount_divider == 25

Unit == 10^4
PctUnit == 10^1
AmountStep == 4 * 10^2
PctStep == (step_size * PctUnit) \div 2
MaxAmount == 4
MaxPct == 10

Unbound == 0 - 1
NoExit == 0 - 1

Amounts == {k * AmountStep : k \in 1..MaxAmount}
PercentChanges == {k * PctStep : k \in (0 - MaxPct)..MaxPct}
Prices == {5 * 10^2, 2 * 10^4}
OrderBooks == {b \in [bid : Prices, ask : Prices] : b.bid <= b.ask}
StepSizes == {Unbound, 0, 10^2, 10^3, 5 * 10^3}
TickSizes == {Unbound, 0, 1}
MinNotionals == {Unbound, 0, 10, 10^3}
QuotePrecisions == {2, 4}
Currencies == {"ETH", "BTC", "USD"}
Responses == {"Y", "y", "n", ""}

baseAsset == "ETH"
quoteAsset == "BTC"

----------------------------------------------------------------------------
(* Decimal arithmetic *)

Abs(x) == IF x < 0 THEN 0 - x ELSE x

\* n/d rounded to an integer, ties to the even neighbour (d > 0)
RoundHalfEven(n, d) ==
    LET q == n \div d
        r == n % d
    IN  IF 2 * r < d THEN q
        ELSE IF 2 * r > d THEN q + 1
        ELSE IF q % 2 = 0 THEN q ELSE q + 1

\* The quantum of a normalized Decimal: 10^exponent, the largest power of ten
\* dividing it (normalize() strips the trailing zeros)
RECURSIVE Quantum(_)
Quantum(n) == IF n > 0 /\ n % 10 = 0 THEN 10 * Quantum(n \div 10) ELSE 1

\* (amount / market_price).quantize(base_increment)
QuantizeQuotient(a, p, inc) ==
    RoundHalfEven(a * Unit, p * Quantum(inc)) * Quantum(inc)

\* Decimal(amount).quantize(base_increment)
QuantizeAmount(a, inc) == RoundHalfEven(a, Quantum(inc)) * Quantum(inc)

\* (base_currency_amount * market_price).quantize(Decimal('1e-%d' % precision))
OrderValue(b, p, prec) ==
    LET q == 10^(8 - prec) IN RoundHalfEven(b * p, q) * q

----------------------------------------------------------------------------
(* Dynamic DCA policy *)

StepsCeil(pc_) == (Abs(pc_) + step_size * PctUnit - 1) \div (step_size * PctUnit)
Steps(pc_) == Abs(pc_) \div (step_size * PctUnit)

IsFavorableSwapped(side, pc_) ==
    (side = "buy" /\ pc_ > 0) \/ (side = "sell" /\ pc_ < 0)
IsFavorable(side, pc_) ==
    (side = "buy" /\ pc_ < 0) \/ (side = "sell" /\ pc_ > 0)

ScaleUp(a, n) == a + a * amount_multiplier * n

ScaleDownNoFloor(a, n) == a - (a * amount_divider * n) \div 100
ScaleDown(a, n) ==
    LET d == a - (a * amount_divider * n) \div 100
    IN  IF d <= 0 THEN 0 ELSE d

----------------------------------------------------------------------------
(* Decisions *)

NeedsConfirmation(live, job) == live /\ ~job

ConfirmedAnyCase(r) == r \in {"Y", "y"}
Confirmed(r) == r = "Y"

BelowMinNotionalZeroOnly(value, min) == value <= 0
BelowMinNotional(value, min) == value < min * Unit

ShouldNotifyAlways(topic, live) == topic
ShouldNotify(topic, live) == topic /\ live

NoSummary ==
    [kind |-> "none", percent_change |-> 0, steps |-> 0, amount |-> 0,
     orig_amount |-> 0, status |-> "", price |-> 0]

CancellationSummaryAlways(dyn, pct, n, a, orig) ==
    [kind |-> "CANCELED", percent_change |-> pct, steps |-> n, amount |-> a,
     orig_amount |-> orig, status |-> "", price |-> 0]
CancellationSummary(dyn, pct, n, a, orig) ==
    IF dyn
    THEN [kind |-> "CANCELED", percent_change |-> pct, steps |-> n,
          amount |-> a, orig_amount |-> orig, status |-> "", price |-> 0]
    ELSE NoSummary

FinalSummary(dyn, pct, n, a, orig, status, price) ==
    IF dyn
    THEN [kind |-> "dynamic", percent_change |-> pct, steps |-> n,
          amount |-> a, orig_amount |-> orig, status |-> status,
          price |-> price]
    ELSE [kind |-> "plain", percent_change |-> 0, steps |-> 0, amount |-> a,
          orig_amount |-> 0, status |-> status, price |-> price]

NoOrder == [status |-> "", fills |-> <<>>]

\* The order of the statement blocks of __main__
PipelineConfirmLate ==
    <<"resolve", "scale", "price", "convert", "validate", "confirm",
      "execute", "summary", "done">>
Pipeline ==
    <<"resolve", "confirm", "scale", "price", "convert", "validate",
      "execute", "summary", "done">>

StepAfter(p) ==
    LET i == CHOOSE j \in 1..Len(Pipeline) : Pipeline[j] = p
    IN  Pipeline[i + 1]

----------------------------------------------------------------------------
(* Ways a run ends *)

Exit(status, at, err) ==
    /\ pc' = "done"
    /\ exit_status' = status
    /\ exit_at' = at
    /\ error' = err

\* An uncaught exception: the interpreter prints the traceback and exits 1
Raise(at, err) == Exit(1, at, err)

----------------------------------------------------------------------------
Init ==
    /\ pc = Pipeline[1]
    /\ order_side \in {"buy", "sell"}
    /\ amount \in Amounts
    /\ amount_currency \in Currencies
    /\ is_dynamic_dca \in BOOLEAN
    /\ live_mode \in BOOLEAN
    /\ job_mode \in BOOLEAN
    /\ sns_topic \in BOOLEAN
    /\ symbol_found = FALSE
    /\ base_min_size = Unbound
    /\ base_increment = Unbound
    /\ quote_increment = Unbound
    /\ quote_asset_precision = Unbound
    /\ amount_currency_is_quote_currency = FALSE
    /\ response = ""
    /\ orig_amount = Unbound
    /\ percent_change = 0
    /\ steps = 0
    /\ market_price = Unbound
    /\ base_currency_amount = Unbound
    /\ order_value = Unbound
    /\ message = FALSE
    /\ purchase_summary = NoSummary
    /\ order = NoOrder
    /\ exit_status = NoExit
    /\ exit_at = "running"
    /\ error = ""
    /\ trace = <<>>

----------------------------------------------------------------------------
(* Market constraints: the scan of exchange_info and the checks after it *)

\* The exception the checks at lines 212-217 end with, "" when they pass.  A
\* filter the market does not list leaves its variable unassigned, and the
\* check that reads it raises NameError before it can raise its own message.
FilterError(min, inc, tick) ==
    IF min = Unbound THEN "NameError: name 'base_min_size' is not defined"
    ELSE IF min = 0 THEN "Exception: MIN_NOTIONAL.minNotional not found"
    ELSE IF inc = Unbound THEN "NameError: name 'base_increment' is not defined"
    ELSE IF inc = 0 THEN "Exception: LOT_SIZE.stepSize not found"
    ELSE IF tick = Unbound
    THEN "NameError: name 'quote_increment' is not defined"
    ELSE IF tick = 0 THEN "Exception: PRICE_FILTER.tickSize not found"
    ELSE ""

CurrencyError(cur) ==
    IF cur = quoteAsset \/ cur = baseAsset THEN ""
    ELSE "Exception: amount_currency not in market"

\* market_name is not among the symbols: the loop body never runs and the
\* print at line 228 reads an unassigned name
SymbolAbsent ==
    /\ pc = "resolve"
    /\ trace' = Append(trace, "get_exchange_info")
    /\ Raise("resolve", "NameError: name 'base_min_size' is not defined")
    /\ UNCHANGED <<args, amount, is_dynamic_dca, constraints, response,
                   scaling, sizing, message, purchase_summary, order>>

ResolveConstraints ==
    /\ pc = "resolve"
    /\ \E min \in MinNotionals, inc \in StepSizes, tick \in TickSizes,
          prec \in QuotePrecisions :
          /\ symbol_found' = TRUE
          /\ quote_asset_precision' = prec
          /\ base_min_size' = min
          /\ base_increment' = inc
          /\ quote_increment' = tick
          /\ IF FilterError(min, inc, tick) # ""
             THEN /\ Raise("resolve", FilterError(min, inc, tick))
                  /\ trace' = Append(trace, "get_exchange_info")
                  /\ UNCHANGED amount_currency_is_quote_currency
             ELSE IF CurrencyError(amount_currency) # ""
             THEN /\ Raise("resolve", CurrencyError(amount_currency))
                  /\ trace' = Append(trace, "get_exchange_info")
                  /\ UNCHANGED amount_currency_is_quote_currency
             ELSE /\ amount_currency_is_quote_currency' =
                         (amount_currency = quoteAsset)
                  /\ trace' = trace \o <<"get_exchange_info", "resolved">>
                  /\ pc' = StepAfter("resolve")
                  /\ UNCHANGED ending
    /\ UNCHANGED <<args, amount, is_dynamic_dca, response, scaling, sizing,
                   message, purchase_summary, order>>

----------------------------------------------------------------------------
(* Live confirmation *)

Confirm ==
    /\ pc = "confirm"
    /\ IF NeedsConfirmation(live_mode, job_mode)
       THEN \E r \in Responses :
               /\ response' = r
               /\ trace' = Append(trace, "input")
               /\ IF Confirmed(r)
                  THEN pc' = StepAfter("confirm") /\ UNCHANGED ending
                  ELSE Exit(0, "declined", "")
       ELSE /\ pc' = StepAfter("confirm")
            /\ UNCHANGED <<response, trace, ending>>
    /\ UNCHANGED <<args, amount, is_dynamic_dca, constraints, scaling, sizing,
                   message, purchase_summary, order>>

----------------------------------------------------------------------------
(* Dynamic DCA scaling *)

DynamicDca ==
    /\ pc = "scale"
    /\ pc' = StepAfter("scale")
    /\ IF is_dynamic_dca
       THEN \E pct \in PercentChanges :
               /\ orig_amount' = amount
               /\ percent_change' = pct
               /\ steps' = Steps(pct)
               /\ trace' = trace \o <<"get_ticker", "scaled">>
               /\ IF Steps(pct) > 0
                  THEN /\ amount' = IF IsFavorable(order_side, pct)
                                    THEN ScaleUp(amount, Steps(pct))
                                    ELSE ScaleDown(amount, Steps(pct))
                       /\ UNCHANGED is_dynamic_dca
                  ELSE /\ is_dynamic_dca' = FALSE
                       /\ UNCHANGED amount
       ELSE UNCHANGED <<amount, is_dynamic_dca, scaling, trace>>
    /\ UNCHANGED <<args, constraints, response, sizing, message,
                   purchase_summary, order, ending>>

----------------------------------------------------------------------------
(* Price, conversion, validation *)

FetchPrice ==
    /\ pc = "price"
    /\ pc' = StepAfter("price")
    /\ \E depth \in OrderBooks :
          market_price' = IF order_side = "buy" THEN depth.bid ELSE depth.ask
    /\ trace' = Append(trace, "get_order_book")
    /\ UNCHANGED <<args, amount, is_dynamic_dca, constraints, response,
                   scaling, base_currency_amount, order_value, message,
                   purchase_summary, order, ending>>

Convert ==
    /\ pc = "convert"
    /\ pc' = StepAfter("convert")
    /\ base_currency_amount' =
          IF amount_currency_is_quote_currency
          THEN QuantizeQuotient(amount, market_price, base_increment)
          ELSE QuantizeAmount(amount, base_increment)
    /\ trace' = Append(trace, "converted")
    /\ UNCHANGED <<args, amount, is_dynamic_dca, constraints, response,
                   scaling, market_price, order_value, message,
                   purchase_summary, order, ending>>

Validate ==
    /\ pc = "validate"
    /\ order_value' =
          OrderValue(base_currency_amount, market_price, quote_asset_precision)
    /\ IF BelowMinNotional(order_value', base_min_size)
       THEN /\ message' = TRUE
            /\ purchase_summary' =
                  CancellationSummary(is_dynamic_dca, percent_change, steps,
                                      amount, orig_amount)
            /\ trace' = trace \o <<"rejected">> \o
                  (IF is_dynamic_dca /\ ShouldNotify(sns_topic, live_mode)
                   THEN <<"sns.publish">> ELSE <<>>)
            /\ Exit(0, "rejected", "")
       ELSE /\ trace' = Append(trace, "accepted")
            /\ pc' = StepAfter("validate")
            /\ UNCHANGED <<message, purchase_summary, ending>>
    /\ UNCHANGED <<args, amount, is_dynamic_dca, constraints, response,
                   scaling, market_price, base_currency_amount, order>>

----------------------------------------------------------------------------
(* Execution *)

\* Simulation: the exchange's test endpoint answers {} or refuses the request
TestOrder ==
    /\ pc = "execute"
    /\ ~live_mode
    /\ trace' = Append(trace, "create_test_order")
    /\ \E refused \in BOOLEAN :
          IF refused
          THEN Raise("test_order", "BinanceAPIException")
          ELSE pc' = StepAfter("execute") /\ UNCHANGED ending
    /\ UNCHANGED <<args, amount, is_dynamic_dca, constraints, response,
                   scaling, sizing, message, purchase_summary, order>>

\* Live: the market order fills, comes back without fills, or is refused
LiveOrder ==
    /\ pc = "execute"
    /\ live_mode
    /\ \E outcome \in {"FILLED", "EXPIRED", "APIException"}, fill \in Prices :
          CASE outcome = "FILLED" ->
                  /\ order' = [status |-> "FILLED", fills |-> <<fill>>]
                  /\ market_price' = fill
                  /\ trace' = Append(trace, "order_market_" \o order_side)
                  /\ pc' = StepAfter("execute")
                  /\ UNCHANGED ending
            [] outcome = "EXPIRED" ->
                  /\ order' = [status |-> "EXPIRED", fills |-> <<>>]
                  /\ trace' = Append(trace, "order_market_" \o order_side)
                  /\ Raise("fills", "IndexError: list index out of range")
                  /\ UNCHANGED market_price
            [] outcome = "APIException" ->
                  /\ trace' = trace \o <<"order_market_" \o order_side>> \o
                        (IF ShouldNotify(sns_topic, live_mode)
                         THEN <<"sns.publish">> ELSE <<>>)
                  /\ Exit(0, "execution_failure", "BinanceAPIException")
                  /\ UNCHANGED <<order, market_price>>
    /\ UNCHANGED <<args, amount, is_dynamic_dca, constraints, response,
                   scaling, base_currency_amount, order_value, message,
                   purchase_summary>>

----------------------------------------------------------------------------
(* Summary and notification *)

Summarize ==
    /\ pc = "summary"
    /\ purchase_summary' =
          FinalSummary(is_dynamic_dca, percent_change, steps, amount,
                       orig_amount, order.status, market_price)
    /\ trace' = trace \o
          (IF ShouldNotify(sns_topic, live_mode)
           THEN <<"sns.publish">> ELSE <<>>)
    /\ Exit(0, "completed", "")
    /\ UNCHANGED <<args, amount, is_dynamic_dca, constraints, response,
                   scaling, sizing, message, order>>

----------------------------------------------------------------------------
Next ==
    \/ SymbolAbsent
    \/ ResolveConstraints
    \/ Confirm
    \/ DynamicDca
    \/ FetchPrice
    \/ Convert
    \/ Validate
    \/ TestOrder
    \/ LiveOrder
    \/ Summarize

Spec == Init /\ [][Next]_vars

----------------------------------------------------------------------------
(* Properties *)

Has(e) == \E i \in 1..Len(trace) : trace[i] = e

LiveOrderCalls == {"order_market_buy", "order_market_sell"}
OrderCalls == LiveOrderCalls \cup {"create_test_order"}
NoCallIn(S) == \A i \in 1..Len(trace) : trace[i] \notin S

Unfavorable ==
    (order_side = "buy" /\ percent_change >= 0)
    \/ (order_side = "sell" /\ percent_change <= 0)

\* C1: for a positive amount the converted base quantity is the unquantized
\* quantity (amount, or amount / price for a quote-currency amount) truncated
\* down to a multiple of baseIncrement: an exact multiple of baseIncrement
\* that never exceeds the unquantized quantity.
C1_TruncatedToIncrement ==
    (pc = "validate" /\ amount > 0) =>
        /\ base_currency_amount % base_increment = 0
        /\ IF amount_currency_is_quote_currency
           THEN base_currency_amount * market_price <= amount * Unit
           ELSE base_currency_amount <= amount

\* C2: an order request of any kind (test, market buy, market sell) is sent
\* only after validation accepted the order, whose notional value, base
\* quantity x price rounded to quoteAssetPrecision places, is then not below
\* minNotional.
C2_NoOrderBelowMinNotional ==
    /\ pc = "execute" =>
          LET q == 10^(8 - quote_asset_precision)
          IN  /\ order_value % q = 0
              /\ 2 * Abs(order_value - base_currency_amount * market_price)
                    <= q
    /\ \A i \in 1..Len(trace) :
          trace[i] \in OrderCalls =>
              /\ \E j \in 1..(i - 1) : trace[j] = "accepted"
              /\ ~Has("rejected")
              /\ order_value >= base_min_size * Unit

C2_Witness ==
    /\ \E i \in 1..Len(trace) : trace[i] \in OrderCalls
    /\ order_value = base_min_size * Unit

\* C3: in a live run that is not in job mode a live market order is submitted
\* only if the answer to the confirmation prompt was exactly 'Y'; after any
\* other answer the run has ended with exit status 0, no order and no
\* notification.  In job mode no prompt is issued.
C3_LiveOrderNeedsExactY ==
    /\ (live_mode /\ ~job_mode) =>
          /\ ~NoCallIn(LiveOrderCalls) => (Has("input") /\ response = "Y")
          /\ (Has("input") /\ response # "Y") =>
                /\ pc = "done"
                /\ exit_status = 0
                /\ NoCallIn(OrderCalls \cup {"sns.publish"})
    /\ job_mode => ~Has("input")

C3_Witness ==
    /\ live_mode /\ ~job_mode /\ sns_topic
    /\ Has("input") /\ response = "y"
    /\ pc = "done"

\* C4: with live mode off no live market order is ever submitted and no
\* notification is ever published, on any path; the only order-related call
\* is the test order.
C4_SimulationSendsNothingLive ==
    ~live_mode => NoCallIn(LiveOrderCalls \cup {"sns.publish"})

C4_Witness ==
    /\ ~live_mode /\ sns_topic
    /\ Has("create_test_order")
    /\ exit_at = "completed"

\* C5: with steps = floor(|percentChange| / 5) the scaled amount is the
\* unchanged amount when steps = 0, amount x (1 + steps) when the move is
\* favorable, and max(0, amount x (1 - 0.25 x steps)) otherwise; it is never
\* negative, larger than the original when favorable, smaller when
\* unfavorable.
C5_ScaledAmount ==
    Has("scaled") =>
        /\ steps * step_size * PctUnit <= Abs(percent_change)
        /\ Abs(percent_change) < (steps + 1) * step_size * PctUnit
        /\ orig_amount > 0
        /\ amount >= 0
        /\ steps = 0 => amount = orig_amount
        /\ (steps > 0 /\ ~Unfavorable) =>
              /\ amount = orig_amount * (1 + steps)
              /\ amount > orig_amount
        /\ (steps > 0 /\ Unfavorable) =>
              /\ 4 * amount =
                    IF steps >= 4 THEN 0 ELSE orig_amount * (4 - steps)
              /\ amount < orig_amount

C5_Witness ==
    /\ Has("scaled")
    /\ steps = 3
    /\ Unfavorable
    /\ 4 * amount = orig_amount

\* C6: a run that ends in a fatal error (constraint resolution, currency
\* check, the exchange rejecting the live order) ends with a non-zero exit
\* status; exit status 0 occurs only on normal completion, on a validation
\* rejection and when the operator declines.
C6_FatalErrorsExitNonZero ==
    pc = "done" =>
        /\ exit_at \in {"resolve", "execution_failure"} => exit_status # 0
        /\ exit_status = 0 => exit_at \in {"completed", "rejected", "declined"}

\* C7 as stated: every run the validator rejects produces a cancellation
\* summary and exits cleanly without submitting, dynamic DCA or not.
C7_RejectionAlwaysSummarized ==
    exit_at = "rejected" =>
        /\ purchase_summary.kind = "CANCELED"
        /\ exit_status = 0
        /\ NoCallIn(OrderCalls)

\* C7 amended: every run the validator rejects prints the below-minNotional
\* message and exits with status 0 without submitting any order; the
\* cancellation summary is produced exactly when dynamic DCA scaling was in
\* effect (steps > 0), not when dynamic DCA is off or downgraded at steps = 0.
C7_RejectionSummarizedWhenScaled ==
    exit_at = "rejected" =>
        /\ message
        /\ exit_status = 0
        /\ NoCallIn(OrderCalls)
        /\ purchase_summary.kind = "CANCELED" <=> (Has("scaled") /\ steps > 0)
        /\ purchase_summary.kind \in {"CANCELED", "none"}

C7_Witness ==
    /\ exit_at = "rejected"
    /\ Has("scaled") /\ steps = 0
    /\ purchase_summary.kind = "none"

\* C8: when the symbol is absent from the metadata or one of the LOT_SIZE,
\* PRICE_FILTER, MIN_NOTIONAL filters is missing, the run ends in constraint
\* resolution with a configuration error naming a missing filter, before any
\* prompt, price fetch or order.
C8_MissingFilterNamed ==
    (pc # "resolve" /\ (~symbol_found \/ base_min_size = Unbound
                        \/ base_increment = Unbound
                        \/ quote_increment = Unbound)) =>
        /\ pc = "done" /\ exit_at = "resolve" /\ exit_status # 0
        /\ \/ base_min_size = Unbound
              /\ error = "Exception: MIN_NOTIONAL.minNotional not found"
           \/ base_increment = Unbound
              /\ error = "Exception: LOT_SIZE.stepSize not found"
           \/ quote_increment = Unbound
              /\ error = "Exception: PRICE_FILTER.tickSize not found"
        /\ NoCallIn(OrderCalls \cup {"input", "get_order_book", "get_ticker"})

\* C9 as stated: the confirmation prompt comes after validation accepted the
\* order, and a run whose order validation rejects never prompts.
C9_PromptAfterValidation ==
    /\ \A i \in 1..Len(trace) :
          trace[i] = "input" => \E j \in 1..(i - 1) : trace[j] = "accepted"
    /\ Has("rejected") => ~Has("input")

EventRank(e) ==
    CASE e = "get_exchange_info" -> 1
      [] e = "resolved" -> 2
      [] e = "input" -> 3
      [] e = "get_ticker" -> 4
      [] e = "scaled" -> 5
      [] e = "get_order_book" -> 6
      [] e = "converted" -> 7
      [] e \in {"accepted", "rejected"} -> 8
      [] e \in OrderCalls -> 9
      [] e = "sns.publish" -> 10

\* C9 amended: the steps run in the order resolve constraints, operator
\* confirmation (attended live runs only), dynamic scaling, price fetch,
\* conversion, validation, then the branch; the prompt therefore comes before
\* scaling, pricing and validation, and an attended live run whose order
\* validation rejects has already prompted the operator and been answered 'Y'.
C9_PromptBeforeScaling ==
    /\ \A i, j \in 1..Len(trace) :
          i < j => EventRank(trace[i]) < EventRank(trace[j])
    /\ (live_mode /\ ~job_mode /\ Has("resolved") /\ pc # "confirm") =>
          Has("input")
    /\ (live_mode /\ ~job_mode /\ Has("rejected")) =>
          (Has("input") /\ response = "Y")

C9_Witness ==
    /\ live_mode /\ ~job_mode
    /\ Has("input") /\ Has("scaled") /\ Has("rejected")

\* C10: when unfavorable scaling takes the amount to 0 or below (steps >= 4
\* against the trade direction) the amount is exactly 0, validation rejects
\* the order, no test or live order is submitted, and the run ends with the
\* dynamic-DCA cancellation summary carrying percentChange, steps, the scaled
\* amount 0 and the original amount.
C10_ScaledToZeroIsCanceled ==
    (Has("scaled") /\ Unfavorable
     /\ Abs(percent_change) >= 4 * step_size * PctUnit) =>
        /\ amount = 0
        /\ orig_amount > 0
        /\ base_min_size > 0
        /\ NoCallIn(OrderCalls)
        /\ ~Has("accepted")
        /\ pc = "done" =>
              /\ exit_at = "rejected"
              /\ exit_status = 0
              /\ order_value = 0
              /\ purchase_summary =
                    [kind |-> "CANCELED", percent_change |-> percent_change,
                     steps |-> steps, amount |-> 0,
                     orig_amount |-> orig_amount, status |-> "", price |-> 0]

C10_Witness ==
    /\ exit_at = "rejected"
    /\ purchase_summary.kind = "CANCELED"
    /\ purchase_summary.amount = 0
    /\ purchase_summary.steps >= 4

====
